---- MODULE Spec2Model ----
(***************************************************************************)
(* EnvManager (dave-manufor/env-manager): a schema-driven parser of a flat *)
(* key -> string environment source.  EnvManager.create(schema, source,    *)
(* config) runs the constructor (scope set-up) and then parseEnv, a single *)
(* pass over the schema's keys; data() returns the frozen result.          *)
(*                                                                         *)
(* Strings are TLA+ strings; JavaScript values are tagged records (JsVal). *)
(* A schema is the sequence of its declarations in key order, a source is  *)
(* a function whose DOMAIN is the set of keys that hold a string.          *)
(***************************************************************************)
EXTENDS Integers, Sequences, FiniteSets, TLC

\* Longest schema explored.
MaxKeys == 2

\* The schema's key at each position (MaxKeys + 1 of them at least).
KeyNames == <<"VAR_A", "VAR_B", "VAR_C", "VAR_D">>

-----------------------------------------------------------------------------
(* JavaScript values: t is what typeof answers, except "null".  For a number *)
(* s is its class ("finite", "NaN", "Infinity", "-Infinity") and n its       *)
(* value when finite.                                                      *)

JsVal(t, s, n, b) == [t |-> t, s |-> s, n |-> n, b |-> b]

Undefined == JsVal("undefined", "", 0, FALSE)

Null == JsVal("null", "", 0, FALSE)

StrVal(x) == JsVal("string", x, 0, FALSE)

NumVal(x) == JsVal("number", "finite", x, FALSE)

NaN == JsVal("number", "NaN", 0, FALSE)

Infinity == JsVal("number", "Infinity", 0, FALSE)

NegInfinity == JsVal("number", "-Infinity", 0, FALSE)

BoolVal(x) == JsVal("boolean", "", 0, x)

\* typeof v
TypeOf(v) == v.t

\* ToBoolean(v), as `||` and `!` apply it.
Truthy(v) ==
    CASE v.t = "string" -> v.s # ""
      [] v.t = "number" -> ~(v.s = "NaN" \/ (v.s = "finite" /\ v.n = 0))
      [] v.t = "boolean" -> v.b
      [] OTHER -> FALSE

\* `${v}` for the values a template literal meets here.
ToStr(v) ==
    CASE v.t = "string" -> v.s
      [] v.t = "undefined" -> "undefined"
      [] v.t = "null" -> "null"
      [] v.t = "boolean" -> IF v.b THEN "true" ELSE "false"
      [] OTHER -> v.s

-----------------------------------------------------------------------------
(* Number(rawValue): StringToNumber.  White space is trimmed, the empty    *)
(* string is 0, then an optional sign and either Infinity or decimal       *)
(* digits; anything else is NaN.  Fractions, exponents and 0x/0o/0b        *)
(* literals are left out: no raw string of the pools used here has one.   *)

Ch(s, i) == SubSeq(s, i, i)

WhiteSpace == {" ", "\t", "\n"}

DigitChars == {"0", "1", "2", "3", "4", "5", "6", "7", "8", "9"}

RECURSIVE TrimStart(_)
TrimStart(s) ==
    IF Len(s) > 0 /\ Ch(s, 1) \in WhiteSpace THEN TrimStart(Tail(s)) ELSE s

RECURSIVE TrimEnd(_)
TrimEnd(s) ==
    IF Len(s) > 0 /\ Ch(s, Len(s)) \in WhiteSpace
    THEN TrimEnd(SubSeq(s, 1, Len(s) - 1))
    ELSE s

Trim(s) == TrimEnd(TrimStart(s))

DigitVal(c) == CHOOSE d \in 0..9 : Ch("0123456789", d + 1) = c

IsDigits(s) == Len(s) > 0 /\ \A i \in 1..Len(s) : Ch(s, i) \in DigitChars

RECURSIVE DigitsVal(_)
DigitsVal(s) ==
    IF Len(s) = 0 THEN 0
    ELSE 10 * DigitsVal(SubSeq(s, 1, Len(s) - 1)) + DigitVal(Ch(s, Len(s)))

\* A slip: the raw string is kept as it is, Number() forgotten.
Number_Unparsed(raw) == StrVal(raw)

Number(raw) ==
    LET t == Trim(raw)
        signed == Len(t) > 0 /\ Ch(t, 1) \in {"+", "-"}
        neg == Len(t) > 0 /\ Ch(t, 1) = "-"
        body == IF signed THEN Tail(t) ELSE t
    IN  IF t = "" THEN NumVal(0)
        ELSE IF body = "Infinity" THEN (IF neg THEN NegInfinity ELSE Infinity)
        ELSE IF IsDigits(body)
             THEN NumVal(IF neg THEN 0 - DigitsVal(body) ELSE DigitsVal(body))
        ELSE NaN

\* isNaN(v) of a number v.
IsNaN(v) == v.t = "number" /\ v.s = "NaN"

\* ToNumber, as a relational operator applies it to its operand.
ToNumber(v) ==
    CASE v.t = "number" -> v
      [] v.t = "string" -> Number(v.s)
      [] v.t = "boolean" -> NumVal(IF v.b THEN 1 ELSE 0)
      [] OTHER -> NaN

\* a < b on numbers.
NumLess(a, b) ==
    /\ a.s # "NaN" /\ b.s # "NaN"
    /\ \/ a.s = "-Infinity" /\ b.s # "-Infinity"
       \/ b.s = "Infinity" /\ a.s # "Infinity"
       \/ a.s = "finite" /\ b.s = "finite" /\ a.n < b.n

-----------------------------------------------------------------------------
(* Validators are the caller's functions; these are the ones explored.    *)
(* "none" stands for a declaration without a validator.                    *)

Validators == {"none", "accept", "reject", "rejectMsg", "portRange", "nonEmpty"}

\* validator(value): true, false or a message.
ApplyValidator(name, v) ==
    CASE name = "accept" -> BoolVal(TRUE)
      [] name = "reject" -> BoolVal(FALSE)
      [] name = "rejectMsg" -> StrVal("value rejected")
      [] name = "portRange" ->
            BoolVal(NumLess(NumVal(0), ToNumber(v)) /\ NumLess(ToNumber(v), NumVal(65536)))
      [] name = "nonEmpty" ->
            IF v.t = "string" /\ v.s # "" THEN BoolVal(TRUE)
            ELSE StrVal("must be a non-empty string")
      [] OTHER -> Undefined

-----------------------------------------------------------------------------
(* Errors: the message thrown, with the template's holes kept beside it.   *)

Err(kind, name, names, message) ==
    [kind |-> kind, name |-> name, names |-> names, message |-> message]

NoError == Err("none", "", <<>>, "")

RECURSIVE Join(_, _)
Join(names, sep) ==
    IF Len(names) = 0 THEN ""
    ELSE IF Len(names) = 1 THEN names[1]
    ELSE names[1] \o sep \o Join(Tail(names), sep)

InvalidSourceError == Err("InvalidSource", "", <<>>, "[Env Manager] - Env source is undefined.")

ScopeUndeterminedError(names) ==
    Err("ScopeUndetermined", "", names,
        "[Env Manager] - Scopes enabled but current scope could not be determined from source. Ensure NODE_ENV is set ("
        \o Join(names, " | ") \o ").")

MissingVariableError(rawName) ==
    Err("MissingVariable", rawName, <<>>,
        "[Env Manager] - Missing required environment variable: " \o rawName)

InvalidNumberError(rawName) ==
    Err("InvalidNumber", rawName, <<>>,
        "[Env Manager] - Environment variable " \o rawName \o " is not a valid number.")

InvalidBooleanError(rawName) ==
    Err("InvalidBoolean", rawName, <<>>,
        "[Env Manager] - Environment variable " \o rawName
        \o " is not a valid boolean. Use \"true\", \"false\", \"1\", or \"0\".")

ValidationError(rawName, result) ==
    Err("Validation", rawName, <<>>,
        "[Env Manager] - Environment variable " \o rawName \o " failed custom validation. "
        \o (IF TypeOf(result) = "string" THEN result.s ELSE ""))

-----------------------------------------------------------------------------
(* The scope table: a sequence of [name, prefix] in Object.keys order.     *)

DefaultScopes ==
    << [name |-> "development", prefix |-> "DEV"],
       [name |-> "production", prefix |-> "PROD"],
       [name |-> "test", prefix |-> "TEST"],
       [name |-> "staging", prefix |-> "STAGE"] >>

ScopeNames(tbl) == [i \in 1..Len(tbl) |-> tbl[i].name]

HasScope(tbl, name) == \E i \in 1..Len(tbl) : tbl[i].name = name

\* tbl[name]
ScopeLookup(tbl, name) ==
    IF HasScope(tbl, name)
    THEN StrVal(tbl[CHOOSE i \in 1..Len(tbl) : tbl[i].name = name].prefix)
    ELSE Undefined

\* { ...tbl, [e.name]: e.prefix }
PutScope(tbl, e) ==
    IF HasScope(tbl, e.name)
    THEN [i \in 1..Len(tbl) |-> IF tbl[i].name = e.name THEN e ELSE tbl[i]]
    ELSE Append(tbl, e)

\* A slip: config.scopes replaces the table instead of being laid over it.
MergeScopes_Replace(base, over) == over

\* { ...base, ...over }
RECURSIVE MergeScopes(_, _)
MergeScopes(base, over) ==
    IF Len(over) = 0 THEN base
    ELSE MergeScopes(PutScope(base, over[1]), Tail(over))

-----------------------------------------------------------------------------
(* State.  schema, source and config are the arguments of create(); the    *)
(* rest are the fields of the instance, the locals of parseEnv (idx,       *)
(* parsedEnv), what the call threw (error), and what was observed: the     *)
(* reads of the source, each with the key read and the value it gave      *)
(* (reads), the validator invocations (validatorCalls), the result of the  *)
(* latest data() call (lastData), whether the caller tried to change a     *)
(* returned result (tampered) and whether the caller changed the source    *)
(* mapping after construction (sourceChanged).                             *)

VARIABLES schema, source, config, pc, currentScope, scopes, enableScopes,
          idx, parsedEnv, env, error, reads, validatorCalls, lastData, tampered,
          sourceChanged

vars == <<schema, source, config, pc, currentScope, scopes, enableScopes,
          idx, parsedEnv, env, error, reads, validatorCalls, lastData, tampered,
          sourceChanged>>

\* An object: its own properties and whether it is frozen.
Obj(props, frozen) == [props |-> props, frozen |-> frozen]

EmptyProps == [k \in {} |-> Undefined]

\* obj[k] = v
SetProp(o, k, v) ==
    IF o.frozen THEN o
    ELSE Obj([x \in DOMAIN o.props \cup {k} |-> IF x = k THEN v ELSE o.props[x]], FALSE)

\* delete obj[k]
DeleteProp(o, k) ==
    IF o.frozen THEN o
    ELSE Obj([x \in DOMAIN o.props \ {k} |-> o.props[x]], FALSE)

\* A slip: the result is returned without being frozen.
ObjectFreeze_Forgotten(o) == o

\* Object.freeze(obj)
ObjectFreeze(o) == Obj(o.props, TRUE)

\* source[k]
Read(src, k) == IF k \in DOMAIN src.map THEN StrVal(src.map[k]) ELSE Undefined

\* this.source.NODE_ENV || null
initCurrentScope(src) ==
    LET v == Read(src, "NODE_ENV") IN IF Truthy(v) THEN v ELSE Null

getPrefixedName(name) ==
    IF enableScopes /\ Truthy(currentScope)
    THEN LET scope == currentScope.s
             tpl == ToStr(ScopeLookup(scopes, scope)) \o "_"
             prefix == IF Truthy(StrVal(tpl)) THEN tpl ELSE ""
         IN  prefix \o name
    ELSE name

\* if (config) { if (config.scopes) this.scopes = { ...this.scopes, ...config.scopes } }
MergedScopes(cfg, tbl) ==
    IF cfg.given /\ Len(cfg.scopes) = 1 THEN MergeScopes(tbl, cfg.scopes[1]) ELSE tbl

\* if (config) { if (config.enableScopes !== undefined) this.enableScopes = config.enableScopes }
EnabledScopes(cfg, enable) ==
    IF cfg.given /\ cfg.enableScopes # "unset" THEN cfg.enableScopes = "true" ELSE enable

\* A slip: the guard tests for scopes being off.
ScopeCheckThrows_Inverted(cfg, scope) ==
    /\ cfg.given
    /\ cfg.enableScopes # "unset"
    /\ ~EnabledScopes(cfg, FALSE)
    /\ ~Truthy(scope)

\* The guard of the throw: enableScopes was given, is true, and there is no current scope.
ScopeCheckThrows(cfg, scope) ==
    /\ cfg.given
    /\ cfg.enableScopes # "unset"
    /\ EnabledScopes(cfg, FALSE)
    /\ ~Truthy(scope)

\* A slip: required defaults to false (declaration.required ?? false).
IsRequired_DefaultsFalse(declaration) == declaration.required = "true"

\* declaration.required ?? true
IsRequired(declaration) ==
    IF declaration.required = "unset" THEN TRUE ELSE declaration.required = "true"

\* What one iteration of the loop of parseEnv comes to: it throws, or it
\* stores value under the key; calls are the values handed to the validator.
Thrown(e, calls) == [thrown |-> TRUE, value |-> Undefined, error |-> e, calls |-> calls]

Stored(v, calls) == [thrown |-> FALSE, value |-> v, error |-> NoError, calls |-> calls]

\* A slip: `if (!result) throw`, so a returned message counts as acceptance.
RunValidator_Truthy(declaration, rawName, parsedValue) ==
    IF declaration.validator # "none"
    THEN LET result == ApplyValidator(declaration.validator, parsedValue)
         IN  IF ~Truthy(result)
             THEN Thrown(ValidationError(rawName, result), <<parsedValue>>)
             ELSE Stored(parsedValue, <<parsedValue>>)
    ELSE Stored(parsedValue, <<>>)

\* if (declaration.validator) { result = validator(parsedValue); if (result !== true) throw }
RunValidator(declaration, rawName, parsedValue) ==
    IF declaration.validator # "none"
    THEN LET result == ApplyValidator(declaration.validator, parsedValue)
         IN  IF result # BoolVal(TRUE)
             THEN Thrown(ValidationError(rawName, result), <<parsedValue>>)
             ELSE Stored(parsedValue, <<parsedValue>>)
    ELSE Stored(parsedValue, <<>>)

\* A slip: the comparison ignores case.
BooleanLiterals_AnyCase == {"true", "false", "1", "0", "TRUE", "True", "FALSE", "False"}

BooleanLiterals == {"true", "false", "1", "0"}

\* The body of the for loop of parseEnv, for one declaration.
ParseKey(declaration, rawName, rawValue) ==
    IF rawValue = Undefined \/ rawValue = Null
    THEN IF IsRequired(declaration)
         THEN Thrown(MissingVariableError(rawName), <<>>)
         ELSE Stored(Undefined, <<>>)
    ELSE CASE declaration.type = "string" ->
                RunValidator(declaration, rawName, StrVal(ToStr(rawValue)))
           [] declaration.type = "number" ->
                LET parsedValue == Number(rawValue.s)
                IN  IF IsNaN(parsedValue)
                    THEN Thrown(InvalidNumberError(rawName), <<>>)
                    ELSE RunValidator(declaration, rawName, parsedValue)
           [] declaration.type = "boolean" ->
                IF rawValue.s \notin BooleanLiterals
                THEN Thrown(InvalidBooleanError(rawName), <<>>)
                ELSE RunValidator(declaration, rawName,
                                  BoolVal(rawValue.s = "true" \/ rawValue.s = "1"))
           [] OTHER -> Stored(Undefined, <<>>)

-----------------------------------------------------------------------------
(* Actions.                                                                *)

\* create(schema, source, config): the constructor up to the call of parseEnv.
Construct ==
    /\ pc = "start"
    /\ IF ~source.given
       THEN /\ pc' = "failed"
            /\ error' = InvalidSourceError
            /\ UNCHANGED <<currentScope, scopes, enableScopes, reads>>
       ELSE LET scope == initCurrentScope(source)
                tbl == MergedScopes(config, scopes)
            IN  /\ currentScope' = scope
                /\ reads' = Append(reads, [key |-> "NODE_ENV", value |-> Read(source, "NODE_ENV")])
                /\ scopes' = tbl
                /\ enableScopes' = EnabledScopes(config, enableScopes)
                /\ IF ScopeCheckThrows(config, scope)
                   THEN /\ pc' = "failed"
                        /\ error' = ScopeUndeterminedError(ScopeNames(tbl))
                   ELSE /\ pc' = "parsing"
                        /\ error' = error
    /\ UNCHANGED <<schema, source, config, idx, parsedEnv, env, validatorCalls,
                   lastData, tampered, sourceChanged>>

\* A slip: a failing key records its error and the loop goes on.
ParseStep_KeepGoing ==
    /\ pc = "parsing"
    /\ idx <= Len(schema)
    /\ LET declaration == schema[idx]
           rawName == getPrefixedName(declaration.key)
           rawValue == Read(source, rawName)
           out == ParseKey(declaration, rawName, rawValue)
       IN  /\ reads' = Append(reads, [key |-> rawName, value |-> rawValue])
           /\ validatorCalls' = validatorCalls \o
                [i \in 1..Len(out.calls) |-> [key |-> declaration.key, value |-> out.calls[i]]]
           /\ idx' = idx + 1
           /\ IF out.thrown
              THEN error' = out.error /\ UNCHANGED parsedEnv
              ELSE parsedEnv' = SetProp(parsedEnv, declaration.key, out.value)
                   /\ UNCHANGED error
    /\ UNCHANGED <<schema, source, config, pc, currentScope, scopes, enableScopes, env,
                   lastData, tampered, sourceChanged>>

\* One iteration of `for (const key in this.schema)`.
ParseStep ==
    /\ pc = "parsing"
    /\ idx <= Len(schema)
    /\ LET declaration == schema[idx]
           rawName == getPrefixedName(declaration.key)
           rawValue == Read(source, rawName)
           out == ParseKey(declaration, rawName, rawValue)
       IN  /\ reads' = Append(reads, [key |-> rawName, value |-> rawValue])
           /\ validatorCalls' = validatorCalls \o
                [i \in 1..Len(out.calls) |-> [key |-> declaration.key, value |-> out.calls[i]]]
           /\ IF out.thrown
              THEN /\ pc' = "failed"
                   /\ error' = out.error
                   /\ UNCHANGED <<idx, parsedEnv>>
              ELSE /\ parsedEnv' = SetProp(parsedEnv, declaration.key, out.value)
                   /\ idx' = idx + 1
                   /\ UNCHANGED <<pc, error>>
    /\ UNCHANGED <<schema, source, config, currentScope, scopes, enableScopes, env,
                   lastData, tampered, sourceChanged>>

\* The loop is over: return Object.freeze(parsedEnv); this._env = the result.
ParseDone ==
    /\ pc = "parsing"
    /\ idx > Len(schema)
    /\ env' = ObjectFreeze(parsedEnv)
    /\ pc' = "ready"
    /\ UNCHANGED <<schema, source, config, currentScope, scopes, enableScopes, idx,
                   parsedEnv, error, reads, validatorCalls, lastData, tampered,
                   sourceChanged>>

\* data(): return this._env.
Data ==
    /\ pc = "ready"
    /\ lastData' = [called |-> TRUE, value |-> env.props]
    /\ UNCHANGED <<schema, source, config, pc, currentScope, scopes, enableScopes, idx,
                   parsedEnv, env, error, reads, validatorCalls, tampered, sourceChanged>>

\* The caller writes to, adds to or deletes from a result data() returned
\* (the object returned is this._env itself).
MutateResult ==
    /\ pc = "ready"
    /\ lastData.called
    /\ \E k \in DOMAIN env.props \cup {"INJECTED"}, op \in {"set", "delete"} :
          env' = IF op = "set" THEN SetProp(env, k, StrVal("tampered"))
                 ELSE DeleteProp(env, k)
    /\ tampered' = TRUE
    /\ UNCHANGED <<schema, source, config, pc, currentScope, scopes, enableScopes, idx,
                   parsedEnv, error, reads, validatorCalls, lastData, sourceChanged>>

\* The source the caller passed, emptied or with every value overwritten.
SourceEdits(src) ==
    { [given |-> TRUE, map |-> [k \in {} |-> ""]],
      [given |-> TRUE, map |-> [k \in DOMAIN src.map |-> "0"]] }

\* The caller changes the source mapping after construction.
MutateSource ==
    /\ pc = "ready"
    /\ source.given
    /\ \E s \in SourceEdits(source) : s # source /\ source' = s
    /\ sourceChanged' = TRUE
    /\ UNCHANGED <<schema, config, pc, currentScope, scopes, enableScopes, idx,
                   parsedEnv, env, error, reads, validatorCalls, lastData, tampered>>

Next == Construct \/ ParseStep \/ ParseDone \/ Data \/ MutateResult \/ MutateSource

-----------------------------------------------------------------------------
(* Inputs.  A shape is one declaration together with the raw values the    *)
(* source holds for its key: bare under the key itself, scoped under       *)
(* "<srcPrefix>_<key>"; <<>> is an absent value, <<s>> the string s.       *)

Shape(type, required, validator, bare, scoped) ==
    [type |-> type, required |-> required, validator |-> validator,
     bare |-> bare, scoped |-> scoped]

ShapeSeqs(Shapes) == UNION {[1..n -> Shapes] : n \in 0..MaxKeys}

SchemaOf(sh) ==
    [i \in 1..Len(sh) |->
        [key |-> KeyNames[i], type |-> sh[i].type, required |-> sh[i].required,
         validator |-> sh[i].validator]]

SourcePairs(sh, nodeEnv, srcPrefix) ==
    {<<"UNUSED", "x">>}
    \cup {<<"NODE_ENV", nodeEnv[i]>> : i \in 1..Len(nodeEnv)}
    \cup {<<KeyNames[i], sh[i].bare[1]>> : i \in {j \in 1..Len(sh) : Len(sh[j].bare) = 1}}
    \cup {<<srcPrefix \o "_" \o KeyNames[i], sh[i].scoped[1]>> :
            i \in {j \in 1..Len(sh) : Len(sh[j].scoped) = 1}}

SourceOf(sh, nodeEnv, srcPrefix) ==
    LET pairs == SourcePairs(sh, nodeEnv, srcPrefix)
    IN  [given |-> TRUE,
         map |-> [k \in {p[1] : p \in pairs} |-> (CHOOSE p \in pairs : p[1] = k)[2]]]

NoSource == [given |-> FALSE, map |-> [k \in {} |-> ""]]

NoConfig == [given |-> FALSE, enableScopes |-> "unset", scopes |-> <<>>]

Config(enable, tbl) == [given |-> TRUE, enableScopes |-> enable, scopes |-> tbl]

\* The state before create() runs, its arguments chosen; the fields hold
\* their initializers.
InitWith(sch, src, cfg) ==
    /\ schema = sch
    /\ source = src
    /\ config = cfg
    /\ pc = "start"
    /\ currentScope = Null
    /\ scopes = DefaultScopes
    /\ enableScopes = FALSE
    /\ idx = 1
    /\ parsedEnv = Obj(EmptyProps, FALSE)
    /\ env = Obj(EmptyProps, FALSE)
    /\ error = NoError
    /\ reads = <<>>
    /\ validatorCalls = <<>>
    /\ lastData = [called |-> FALSE, value |-> EmptyProps]
    /\ tampered = FALSE
    /\ sourceChanged = FALSE

-----------------------------------------------------------------------------
(* The specifications: the same actions from different families of inputs. *)

Opt(S) == {<<>>} \cup {<<x>> : x \in S}

Types == {"string", "number", "boolean"}

ConfigScopesOn == Config("true", <<>>)

\* Every kind of failure and success, a schema of up to MaxKeys keys, scopes
\* off and on, and a call without a source.
ShapesMain ==
    {Shape(t, r, v, raw, raw) :
        t \in Types, r \in {"unset", "false"}, v \in {"none", "rejectMsg"},
        raw \in Opt({"1", "abc"})}

Init ==
    \/ \E sh \in ShapeSeqs(ShapesMain), cfg \in {NoConfig, ConfigScopesOn} :
          InitWith(SchemaOf(sh), SourceOf(sh, <<"production">>, "PROD"), cfg)
    \/ \E sh \in ShapeSeqs(ShapesMain) : InitWith(SchemaOf(sh), NoSource, NoConfig)

Spec == Init /\ [][Next]_vars

\* Scopes disabled: required and optional keys, valid, invalid and absent values.
ShapesTyped ==
    {Shape(t, r, v, raw, raw) :
        t \in Types, r \in {"unset", "false"}, v \in {"none", "reject"},
        raw \in Opt({"1", "abc", ""})}

InitTyped ==
    \E sh \in ShapeSeqs(ShapesTyped),
       cfg \in {NoConfig, Config("unset", << <<[name |-> "production", prefix |-> "LIVE"]>> >>)} :
          InitWith(SchemaOf(sh), SourceOf(sh, <<"production">>, "PROD"), cfg)

SpecTyped == InitTyped /\ [][Next]_vars

\* Absent and present values under every setting of required, with the source
\* holding the scoped keys of the current scope (PROD) or of another (DEV).
ShapesMissing ==
    {Shape(t, r, v, raw, raw) :
        t \in Types, r \in {"unset", "true", "false"}, v \in {"none", "reject"},
        raw \in Opt({"1"})}

InitMissing ==
    \E sh \in ShapeSeqs(ShapesMissing), cfg \in {NoConfig, ConfigScopesOn},
       srcPrefix \in {"PROD", "DEV"} :
          InitWith(SchemaOf(sh), SourceOf(sh, <<"production">>, srcPrefix), cfg)

SpecMissing == InitMissing /\ [][Next]_vars

\* Number and Boolean keys over the raw strings that tell the conversions apart.
RawPoolConvert ==
    {"", " ", "0", "1", "42", "-7", " 42 ", "42px", "abc", "true", "false", "TRUE",
     "True", " true", "Infinity", "-Infinity"}

ShapesConvert ==
    {Shape(t, "unset", "none", raw, raw) :
        t \in {"number", "boolean"}, raw \in Opt(RawPoolConvert)}

InitConvert ==
    \E sh \in ShapeSeqs(ShapesConvert), cfg \in {NoConfig, ConfigScopesOn} :
          InitWith(SchemaOf(sh), SourceOf(sh, <<"production">>, "PROD"), cfg)

SpecConvert == InitConvert /\ [][Next]_vars

\* Every validator on every type, the raw value present.
ShapesValidate ==
    {Shape(t, "unset", v, <<raw>>, <<raw>>) :
        t \in Types, v \in Validators \ {"none"}, raw \in {"1", "abc", ""}}

InitValidate ==
    \E sh \in ShapeSeqs(ShapesValidate), cfg \in {NoConfig, ConfigScopesOn} :
          InitWith(SchemaOf(sh), SourceOf(sh, <<"production">>, "PROD"), cfg)

SpecValidate == InitValidate /\ [][Next]_vars

\* Scope configurations against the values of NODE_ENV, the source holding
\* the bare keys and the scoped keys of one prefix independently.
ShapesScopes ==
    {Shape("string", r, "nonEmpty", bare, scoped) :
        r \in {"unset", "false"}, bare \in Opt({"b"}), scoped \in Opt({"s"})}

TableLive == << <<[name |-> "production", prefix |-> "LIVE"]>> >>

TableCustom ==
    << <<[name |-> "custom", prefix |-> "CUSTOM"], [name |-> "development", prefix |-> ""]>> >>

TableAnon == << <<[name |-> "", prefix |-> "ANON"]>> >>

ConfigsScopes ==
    {NoConfig, Config("unset", TableLive), Config("false", TableCustom),
     Config("true", <<>>), Config("true", TableLive), Config("true", TableCustom),
     Config("true", TableAnon)}

NodeEnvs == Opt({"", "development", "production", "custom", "qa"})

SrcPrefixes == {"DEV", "PROD", "LIVE", "CUSTOM", "undefined", ""}

InitScopes ==
    \E sh \in ShapeSeqs(ShapesScopes), cfg \in ConfigsScopes, nodeEnv \in NodeEnvs,
       srcPrefix \in SrcPrefixes :
          InitWith(SchemaOf(sh), SourceOf(sh, nodeEnv, srcPrefix), cfg)

SpecScopes == InitScopes /\ [][Next]_vars

-----------------------------------------------------------------------------
(* What the claims speak of, read off the state.                           *)

SchemaKeys == {schema[i].key : i \in 1..Len(schema)}

\* parseEnv threw while processing schema[idx].
ParseFailed ==
    pc = "failed"
    /\ error.kind \in {"MissingVariable", "InvalidNumber", "InvalidBoolean", "Validation"}

\* The loop has read the source for schema[i].
Processed(i) == i \in 1..Len(schema) /\ Len(reads) >= i + 1

\* The effective lookup key of schema[i] and the raw value found there.
NameOf(i) == reads[i + 1].key

RawOf(i) == reads[i + 1].value

FailedAt(i) == ParseFailed /\ idx = i

\* schema[i] was processed without a throw: its value is in the result.
StoredAt(i) == Processed(i) /\ ~FailedAt(i)

ValueOf(i) == parsedEnv.props[schema[i].key]

\* The validator invocations made for schema[i].
CallsFor(i) == {j \in 1..Len(validatorCalls) : validatorCalls[j].key = schema[i].key}

\* Every recorded read is the source's value at that key, and the reads are
\* NODE_ENV and then one per schema key, in schema order.
ReadsAreOfSource ==
    /\ ~sourceChanged =>
          \A j \in 1..Len(reads) : reads[j].value = Read(source, reads[j].key)
    /\ Len(reads) <= Len(schema) + 1
    /\ Len(reads) >= 1 => reads[1].key = "NODE_ENV"

-----------------------------------------------------------------------------
\* C2: a schema key whose raw value is absent at its effective lookup key
\* makes construction fail with the missing-variable error naming that
\* lookup key when the declaration is required (required true or
\* unspecified); when required is false, undefined is stored under the
\* schema key, nothing is thrown for it, its validator is not invoked and
\* the loop goes on to the next key.
C2_AbsentValue ==
    /\ ReadsAreOfSource
    /\ \A i \in 1..Len(schema) :
          (Processed(i) /\ RawOf(i) = Undefined) =>
             IF schema[i].required \in {"true", "unset"}
             THEN /\ FailedAt(i)
                  /\ error.kind = "MissingVariable"
                  /\ error.name = NameOf(i)
                  /\ error.message =
                        "[Env Manager] - Missing required environment variable: " \o NameOf(i)
                  /\ schema[i].key \notin DOMAIN parsedEnv.props
             ELSE /\ ~FailedAt(i)
                  /\ idx > i
                  /\ schema[i].key \in DOMAIN parsedEnv.props
                  /\ ValueOf(i) = Undefined
                  /\ CallsFor(i) = {}
                  /\ (pc = "ready" =>
                        /\ schema[i].key \in DOMAIN env.props
                        /\ env.props[schema[i].key] = Undefined)

\* An optional absent key with a rejecting validator was stored as undefined
\* and the next key, required by default, failed under its prefixed name
\* although the bare name holds a value.
C2_Witness ==
    /\ Len(schema) = 2
    /\ schema[1].required = "false" /\ schema[1].validator = "reject"
    /\ schema[2].required = "unset"
    /\ FailedAt(2)
    /\ RawOf(1) = Undefined /\ RawOf(2) = Undefined
    /\ ValueOf(1) = Undefined
    /\ error.name = "PROD_VAR_B"
    /\ "VAR_B" \in DOMAIN source.map

-----------------------------------------------------------------------------
\* A string that denotes a finite number: after trimming white space, an
\* optional sign and decimal digits.
DenotesFiniteNumber(str) ==
    LET t == Trim(str)
        body == IF Len(t) > 0 /\ Ch(t, 1) \in {"+", "-"} THEN Tail(t) ELSE t
    IN  IsDigits(body)

\* C3: a Number key whose raw value is present makes construction fail with
\* the invalid-number error naming the lookup key whenever the raw string
\* does not denote a finite number (the empty string, non-numeric residue
\* and an infinite value included); a number is stored only when the string
\* denotes a finite number.
C3_RejectsNonFinite ==
    \A i \in 1..Len(schema) :
       (Processed(i) /\ schema[i].type = "number" /\ TypeOf(RawOf(i)) = "string") =>
          /\ ~DenotesFiniteNumber(RawOf(i).s) =>
                /\ FailedAt(i)
                /\ error.kind = "InvalidNumber"
                /\ error.name = NameOf(i)
          /\ StoredAt(i) => DenotesFiniteNumber(RawOf(i).s)

-----------------------------------------------------------------------------
\* C4: a Boolean key whose raw value is present parses "true" and "1" to
\* true and "false" and "0" to false; every other string, whatever its case,
\* makes construction fail with the invalid-boolean error naming the
\* effective lookup key.
C4_BooleanLiterals ==
    \A i \in 1..Len(schema) :
       (Processed(i) /\ schema[i].type = "boolean" /\ TypeOf(RawOf(i)) = "string") =>
          LET raw == RawOf(i).s
          IN  IF raw \in {"true", "false", "1", "0"}
              THEN /\ ~(FailedAt(i) /\ error.kind = "InvalidBoolean")
                   /\ schema[i].validator = "none" => StoredAt(i)
                   /\ StoredAt(i) => ValueOf(i) = BoolVal(raw \in {"true", "1"})
              ELSE /\ FailedAt(i)
                   /\ error.kind = "InvalidBoolean"
                   /\ error.name = NameOf(i)
                   /\ error.message =
                         "[Env Manager] - Environment variable " \o NameOf(i)
                         \o " is not a valid boolean. Use \"true\", \"false\", \"1\", or \"0\"."

\* "0" was stored as false and the next key failed on "TRUE" under its
\* prefixed name.
C4_Witness ==
    /\ Len(schema) = 2
    /\ schema[1].type = "boolean" /\ schema[2].type = "boolean"
    /\ FailedAt(2)
    /\ RawOf(1) = StrVal("0") /\ ValueOf(1) = BoolVal(FALSE)
    /\ RawOf(2) = StrVal("TRUE")
    /\ error.kind = "InvalidBoolean" /\ error.name = "PROD_VAR_B"

-----------------------------------------------------------------------------
(* The scope table the configuration asks for: config.scopes laid over the *)
(* four defaults.                                                          *)

DefaultPrefix ==
    [development |-> "DEV", production |-> "PROD", test |-> "TEST", staging |-> "STAGE"]

UserTable == IF config.given /\ Len(config.scopes) = 1 THEN config.scopes[1] ELSE <<>>

UserNames == {UserTable[j].name : j \in 1..Len(UserTable)}

KnownScopes == DOMAIN DefaultPrefix \cup UserNames

ExpectedPrefix(scope) ==
    IF scope \in UserNames
    THEN UserTable[CHOOSE j \in 1..Len(UserTable) : UserTable[j].name = scope].prefix
    ELSE DefaultPrefix[scope]

\* The caller asked for scopes.
ScopesOn == config.given /\ config.enableScopes = "true"

\* NODE_ENV, as the constructor read it, names a scope of the table.
NodeEnvKnown ==
    /\ Len(reads) >= 1
    /\ TypeOf(reads[1].value) = "string"
    /\ reads[1].value.s \in KnownScopes

\* sub occurs in str.
Contains(str, sub) ==
    \E k \in 1..(Len(str) - Len(sub) + 1) : SubSeq(str, k, k + Len(sub) - 1) = sub

\* C5: with scopes enabled and NODE_ENV naming a scope of the table, every
\* schema key is read from "<prefix>_<name>", the prefix being the entry of
\* that scope in config.scopes laid over the defaults, and never from the
\* bare name; with scopes disabled (no config, enableScopes absent or false,
\* whatever config.scopes and NODE_ENV hold) every key is read from the bare
\* name.  A finished construction has read every key.
C5_NameResolution ==
    /\ ReadsAreOfSource
    /\ pc = "ready" => Len(reads) = Len(schema) + 1
    /\ \A i \in 1..Len(schema) :
          Processed(i) =>
             /\ ~ScopesOn => NameOf(i) = schema[i].key
             /\ (ScopesOn /\ NodeEnvKnown) =>
                   /\ NameOf(i) = ExpectedPrefix(reads[1].value.s) \o "_" \o schema[i].key
                   /\ NameOf(i) # schema[i].key

\* production was overridden to LIVE: the key was read from LIVE_VAR_A while
\* the bare VAR_A holds another value.
C5_Witness ==
    /\ pc = "ready"
    /\ ~sourceChanged
    /\ config = Config("true", TableLive)
    /\ Len(schema) = 1
    /\ NameOf(1) = "LIVE_VAR_A"
    /\ env.props["VAR_A"] = StrVal("s")
    /\ Read(source, "VAR_A") = StrVal("b")

-----------------------------------------------------------------------------
\* C6: with enableScopes true and NODE_ENV absent from the source,
\* construction fails with the scope-undetermined error whatever the schema,
\* before any schema key is read or any validator is invoked, and the
\* message lists every scope name of the merged table.
C6_ScopeUndetermined ==
    (ScopesOn /\ source.given /\ ~sourceChanged /\ "NODE_ENV" \notin DOMAIN source.map
     /\ pc # "start") =>
        /\ pc = "failed"
        /\ error.kind = "ScopeUndetermined"
        /\ Len(reads) = 1 /\ reads[1].key = "NODE_ENV"
        /\ validatorCalls = <<>>
        /\ DOMAIN parsedEnv.props = {}
        /\ ~lastData.called
        /\ {error.names[j] : j \in 1..Len(error.names)} = KnownScopes
        /\ Contains(error.message, "Scopes enabled but current scope could not be determined")
        /\ \A n \in KnownScopes : Contains(error.message, n)

\* Two keys that would be read and validated, a custom table: the error
\* lists the four defaults and the custom scope.
C6_Witness ==
    /\ pc = "failed"
    /\ error.kind = "ScopeUndetermined"
    /\ Len(schema) = 2
    /\ "VAR_A" \in DOMAIN source.map
    /\ "NODE_ENV" \notin DOMAIN source.map
    /\ config = Config("true", TableCustom)
    /\ Contains(error.message, "(development | production | test | staging | custom)")

-----------------------------------------------------------------------------
\* C10: if scopes are enabled and construction succeeds, NODE_ENV is present
\* and names a scope of the merged table, and every key was read from
\* "<prefix>_<name>" with the prefix of that scope.
C10_ScopeMustBeKnown ==
    (ScopesOn /\ pc = "ready") =>
        /\ NodeEnvKnown
        /\ \A i \in 1..Len(schema) :
              NameOf(i) = ExpectedPrefix(reads[1].value.s) \o "_" \o schema[i].key

-----------------------------------------------------------------------------
\* A raw string is valid for a declared type.
TypeValid(type, raw) ==
    CASE type = "number" -> DenotesFiniteNumber(raw)
      [] type = "boolean" -> raw \in {"true", "false", "1", "0"}
      [] OTHER -> TRUE

\* The value a present raw string converts to.
TypedValue(type, raw) ==
    CASE type = "number" -> Number(raw)
      [] type = "boolean" -> BoolVal(raw \in {"true", "1"})
      [] OTHER -> StrVal(raw)

\* create() has returned or thrown, on the source as it was passed.
Finished == pc \in {"failed", "ready"} /\ source.given /\ ~sourceChanged

\* With scopes disabled the bare key is the lookup key.
PresentBare(i) == schema[i].key \in DOMAIN source.map

AcceptedBare(i) ==
    \/ schema[i].validator = "none"
    \/ ApplyValidator(schema[i].validator,
                      TypedValue(schema[i].type, source.map[schema[i].key])) = BoolVal(TRUE)

\* C1 as stated: with scopes disabled, if every required key (required true
\* or unspecified) resolves to a type-valid value, create succeeds and
\* data() has exactly the keys of the schema, each value of the declared
\* type.
C1_AsStated ==
    (~ScopesOn /\ Finished
     /\ \A i \in 1..Len(schema) :
           schema[i].required # "false" =>
              PresentBare(i) /\ TypeValid(schema[i].type, source.map[schema[i].key])) =>
        /\ pc = "ready"
        /\ DOMAIN env.props = SchemaKeys
        /\ \A i \in 1..Len(schema) : TypeOf(env.props[schema[i].key]) = schema[i].type

\* C1, amended: with scopes disabled, if every required key is present and
\* every key that is present, required or optional, holds a type-valid value
\* that its validator, if any, accepts, then create succeeds and data() has
\* exactly the keys of the schema; the value of a present key has the
\* declared type and the value of an absent optional key is undefined.
C1_TypedResult ==
    (~ScopesOn /\ Finished
     /\ \A i \in 1..Len(schema) :
           /\ schema[i].required # "false" => PresentBare(i)
           /\ PresentBare(i) =>
                 /\ TypeValid(schema[i].type, source.map[schema[i].key])
                 /\ AcceptedBare(i)) =>
        /\ pc = "ready"
        /\ DOMAIN env.props = SchemaKeys
        /\ DOMAIN lastData.value \in {{}, SchemaKeys}
        /\ \A i \in 1..Len(schema) :
              IF PresentBare(i)
              THEN TypeOf(env.props[schema[i].key]) = schema[i].type
              ELSE env.props[schema[i].key] = Undefined

\* A required number and an absent optional boolean, config.scopes supplied
\* without enableScopes: data() returned {VAR_A: 1, VAR_B: undefined}.
C1_Witness ==
    /\ pc = "ready"
    /\ ~sourceChanged
    /\ config.given
    /\ Len(schema) = 2
    /\ schema[1].type = "number" /\ schema[1].required = "unset"
    /\ schema[2].type = "boolean" /\ schema[2].required = "false"
    /\ lastData.called
    /\ DOMAIN lastData.value = {"VAR_A", "VAR_B"}
    /\ lastData.value["VAR_A"] = NumVal(1)
    /\ lastData.value["VAR_B"] = Undefined
    /\ "UNUSED" \in DOMAIN source.map

-----------------------------------------------------------------------------
\* C7: for a key with a validator whose raw value is present, the validator
\* is not invoked when the conversion failed; otherwise it is invoked
\* exactly once, with the converted value of the declared type; a result of
\* true stores that value, any other result (false or a string) aborts with
\* the validation error naming the effective lookup key, the string being
\* part of the message.
C7_Validator ==
    \A i \in 1..Len(schema) :
       (Processed(i) /\ schema[i].validator # "none" /\ TypeOf(RawOf(i)) = "string") =>
          IF FailedAt(i) /\ error.kind \in {"InvalidNumber", "InvalidBoolean"}
          THEN CallsFor(i) = {}
          ELSE /\ Cardinality(CallsFor(i)) = 1
               /\ LET v == validatorCalls[CHOOSE j \in CallsFor(i) : TRUE].value
                      result == ApplyValidator(schema[i].validator, v)
                  IN  /\ TypeOf(v) = schema[i].type
                      /\ v = TypedValue(schema[i].type, RawOf(i).s)
                      /\ IF result = BoolVal(TRUE)
                         THEN StoredAt(i) /\ ValueOf(i) = v
                         ELSE /\ FailedAt(i)
                              /\ error.kind = "Validation"
                              /\ error.name = NameOf(i)
                              /\ Contains(error.message,
                                    "Environment variable " \o NameOf(i)
                                    \o " failed custom validation.")
                              /\ TypeOf(result) = "string" =>
                                    Contains(error.message, result.s)

\* A number accepted by the port-range validator, called with the number 1,
\* then a key rejected with a message, named by its prefixed lookup key.
C7_Witness ==
    /\ Len(schema) = 2
    /\ FailedAt(2)
    /\ schema[1].type = "number" /\ schema[1].validator = "portRange"
    /\ ValueOf(1) = NumVal(1)
    /\ validatorCalls[1] = [key |-> "VAR_A", value |-> NumVal(1)]
    /\ schema[2].validator = "rejectMsg"
    /\ error.kind = "Validation" /\ error.name = "PROD_VAR_B"
    /\ Contains(error.message, "value rejected")

-----------------------------------------------------------------------------
\* str ends with suf.
EndsWith(str, suf) ==
    Len(str) >= Len(suf) /\ SubSeq(str, Len(str) - Len(suf) + 1, Len(str)) = suf

\* The position of a key in the schema.
IndexOf(key) == CHOOSE i \in 1..Len(schema) : schema[i].key = key

\* C8: keys are processed in schema order, and the first key that fails
\* aborts construction with that key's error: no later key is read, no later
\* validator is invoked, an error is never carried along while the loop goes
\* on, and nothing is returned to the caller.
C8_FailFast ==
    /\ ReadsAreOfSource
    /\ \A i \in 1..Len(schema) : Processed(i) => EndsWith(NameOf(i), schema[i].key)
    /\ \A j, k \in 1..Len(validatorCalls) :
          j < k => IndexOf(validatorCalls[j].key) < IndexOf(validatorCalls[k].key)
    /\ error.kind # "none" => pc = "failed"
    /\ ParseFailed =>
          /\ Len(reads) = idx + 1
          /\ DOMAIN parsedEnv.props = {schema[j].key : j \in 1..(idx - 1)}
          /\ \A j \in 1..Len(validatorCalls) : IndexOf(validatorCalls[j].key) <= idx
          /\ error.name = NameOf(idx)
          /\ error = ParseKey(schema[idx], NameOf(idx), RawOf(idx)).error
          /\ \A j \in 1..(idx - 1) : ~ParseKey(schema[j], NameOf(j), RawOf(j)).thrown
    /\ pc = "failed" =>
          /\ ~lastData.called
          /\ DOMAIN env.props = {}
          /\ ~ENABLED Next

\* The first key failed as an invalid number; the second, absent and
\* required, was never read.
C8_Witness ==
    /\ Len(schema) = 2
    /\ FailedAt(1)
    /\ error.kind = "InvalidNumber"
    /\ Len(reads) = 2
    /\ schema[2].required = "unset"
    /\ schema[2].key \notin DOMAIN source.map
    /\ schema[2].validator = "rejectMsg"

-----------------------------------------------------------------------------
\* C9: once construction has succeeded the parsed result never changes:
\* whatever the caller does to a returned result or to the source, the
\* manager stays ready, its result stays the one parseEnv computed, every
\* data() call returns it, and the source is not read and no validator is
\* invoked again.
C9_ResultNeverChanges ==
    [][pc = "ready" =>
          /\ pc' = "ready"
          /\ env.props = parsedEnv.props
          /\ env' = env
          /\ parsedEnv' = parsedEnv
          /\ reads' = reads
          /\ validatorCalls' = validatorCalls
          /\ lastData'.called => lastData'.value = parsedEnv.props]_vars

\* data() was called, the caller tried to change the result and changed the
\* source, and the result is still the parsed one.
C9_Witness ==
    /\ pc = "ready"
    /\ lastData.called /\ tampered /\ sourceChanged
    /\ Len(schema) = 2
    /\ lastData.value = env.props
    /\ env.props["VAR_A"] = NumVal(1)
    /\ Read(source, "VAR_A") = Undefined

====
